---- MODULE Spec2Model ----
(***************************************************************************)
(* floatpack: streaming XOR-delta + bit-packing codec for rust_decimal     *)
(* Decimals (src/src/lib.rs).                                              *)
(*                                                                         *)
(* Conventions.  Arrays, slices and Vecs are tuples: element k of the      *)
(* source (0-based) is element k + 1 here.  A u8 is a number in 0..255.  A *)
(* u32 is the tuple of its four base-256 digits, least significant first:  *)
(* it keeps all 32 bits, which a model-checker integer cannot hold.        *)
(***************************************************************************)
EXTENDS Integers, Sequences, FiniteSets

\* ------------------------------------------------------------- u8 and u32

Byte == 0..255

\* Pow2[k + 1] = 2^k, for k in 0..8
Pow2 == <<1, 2, 4, 8, 16, 32, 64, 128, 256>>

RECURSIVE XorBits(_, _, _)
\* a ^ b on the low k bits of two numbers
XorBits(a, b, k) ==
    IF k = 0 THEN 0
    ELSE ((a + b) % 2) + 2 * XorBits(a \div 2, b \div 2, k - 1)

\* u8 ^ u8, tabulated by nibble
XorNibble == [a \in 0..15 |-> [b \in 0..15 |-> XorBits(a, b, 4)]]

XorByte(a, b) == 16 * XorNibble[a \div 16][b \div 16] + XorNibble[a % 16][b % 16]

\* number of significant bits of a u8 (8 - leading zeros)
BitLen8 == [a \in Byte |-> CHOOSE k \in 0..8 : a < Pow2[k + 1] /\ (k = 0 \/ a >= Pow2[k])]

U32Zero == <<0, 0, 0, 0>>

\* the u32 with the value n, for n < 2^31
U32(n) == <<n % 256, (n \div 256) % 256, (n \div 65536) % 256, (n \div 16777216) % 256>>

\* u32 ^ u32 (lib.rs:78, lib.rs:138)
XorU32(x, y) == <<XorByte(x[1], y[1]), XorByte(x[2], y[2]),
                  XorByte(x[3], y[3]), XorByte(x[4], y[4])>>

\* 32 - leading_zeros of a u32
BitLen32(x) ==
    IF x[4] # 0 THEN 24 + BitLen8[x[4]]
    ELSE IF x[3] # 0 THEN 16 + BitLen8[x[3]]
    ELSE IF x[2] # 0 THEN 8 + BitLen8[x[2]]
    ELSE BitLen8[x[1]]

\* u32::from_be_bytes / u32::from_le_bytes of four bytes in memory order
from_be_bytes(b0, b1, b2, b3) == <<b3, b2, b1, b0>>
from_le_bytes(b0, b1, b2, b3) == <<b0, b1, b2, b3>>

\* u32::to_be_bytes / u32::to_le_bytes: the four bytes in memory order
to_be_bytes(x) == <<x[4], x[3], x[2], x[1]>>
to_le_bytes(x) == <<x[1], x[2], x[3], x[4]>>

\* ------------------------------------------------------------ lane split

\* fn zip_u8(values: [u8; 16]) -> [u32; 4]
zip_u8(values) ==
    << from_be_bytes(values[1], values[2], values[3], values[4]),
       from_le_bytes(values[5], values[6], values[7], values[8]),
       from_le_bytes(values[9], values[10], values[11], values[12]),
       from_le_bytes(values[13], values[14], values[15], values[16]) >>

\* unzip_u8 with lane 0 written little-endian like the other lanes
unzip_u8_le(values) ==
    LET v0 == to_le_bytes(values[1])
        v1 == to_le_bytes(values[2])
        v2 == to_le_bytes(values[3])
        v3 == to_le_bytes(values[4])
    IN  << v0[1], v0[2], v0[3], v0[4], v1[1], v1[2], v1[3], v1[4],
           v2[1], v2[2], v2[3], v2[4], v3[1], v3[2], v3[3], v3[4] >>

\* fn unzip_u8(values: [u32; 4]) -> [u8; 16]
unzip_u8(values) ==
    LET v0 == to_be_bytes(values[1])
        v1 == to_le_bytes(values[2])
        v2 == to_le_bytes(values[3])
        v3 == to_le_bytes(values[4])
    IN  << v0[1], v0[2], v0[3], v0[4], v1[1], v1[2], v1[3], v1[4],
           v2[1], v2[2], v2[3], v2[4], v3[1], v3[2], v3[3], v3[4] >>

\* --------------------------------------------------------------- Decimal

\* rust_decimal::Decimal { flags, hi, lo, mid }: flags holds the scale in bits
\* 16..23 and the sign in bit 31; hi:mid:lo is the 96-bit mantissa.
Dec(neg, scale, hi, mid, lo) ==
    [flags |-> <<0, 0, scale, IF neg THEN 128 ELSE 0>>, hi |-> hi, lo |-> lo, mid |-> mid]

\* Decimal::serialize(&self) -> [u8; 16]: flags, lo, mid, hi, each little-endian
serialize(d) ==
    LET f == to_le_bytes(d.flags)
        l == to_le_bytes(d.lo)
        m == to_le_bytes(d.mid)
        h == to_le_bytes(d.hi)
    IN  << f[1], f[2], f[3], f[4], l[1], l[2], l[3], l[4],
           m[1], m[2], m[3], m[4], h[1], h[2], h[3], h[4] >>

\* Decimal::deserialize(bytes: [u8; 16]) -> Decimal: the flags word is masked
\* with 0x801F_0000.  (The library re-scales a masked scale of 29..31; the
\* decimals of Table have none.)
deserialize(bytes) ==
    [flags |-> <<0, 0, bytes[3] % 32, (bytes[4] \div 128) * 128>>,
     lo    |-> from_le_bytes(bytes[5], bytes[6], bytes[7], bytes[8]),
     mid   |-> from_le_bytes(bytes[9], bytes[10], bytes[11], bytes[12]),
     hi    |-> from_le_bytes(bytes[13], bytes[14], bytes[15], bytes[16])]

\* ------------------------------------------------------------ BitPacker8x

\* BitPacker8x::BLOCK_LEN
BLOCK_LEN == 256

\* BitPacker8x packs 8 interleaved bit streams, one per 32-bit SIMD element:
\* value 8r + j of the block occupies bits r*bits .. r*bits + bits - 1 of
\* stream j, and 32-bit word k of stream j is stored little-endian at bytes
\* 32k + 4j .. 32k + 4j + 3 of the packed output.
SimdLanes == 8

\* BitPacker::num_bits(&self, decompressed: &[u32]) -> u8: the bit length of
\* the largest value of the block
num_bits(arr) ==
    LET S == {BitLen32(arr[k]) : k \in 1..BLOCK_LEN}
    IN  CHOOSE m \in S : \A x \in S : x <= m

\* the low 8 bits of (v >> s) for s >= 0, of (v << -s) for s < 0
Window(v, s) ==
    IF s < 0 THEN (v[1] * Pow2[1 - s]) % 256
    ELSE LET q == s \div 8
             t == s % 8
         IN  (v[q + 1] \div Pow2[t + 1])
             + (IF t > 0 /\ q < 3 THEN (v[q + 2] % Pow2[t + 1]) * Pow2[9 - t] ELSE 0)

RECURSIVE StreamByte(_, _, _, _, _, _)
\* the bits lo .. lo + 7 of stream j: what the values of rows r .. r1 put there
StreamByte(arr, bits, j, lo, r, r1) ==
    IF r > r1 THEN 0
    ELSE Window(arr[(SimdLanes * r) + j + 1], lo - (r * bits))
         + StreamByte(arr, bits, j, lo, r + 1, r1)

\* byte x (0-based) of the packed output
CompressedByte(arr, bits, x) ==
    LET k  == x \div (4 * SimdLanes)
        j  == (x % (4 * SimdLanes)) \div 4
        lo == 8 * ((4 * k) + (x % 4))
    IN  StreamByte(arr, bits, j, lo, lo \div bits, (lo + 7) \div bits)

\* BitPacker::compress(&self, decompressed, compressed, num_bits), on a buffer
\* of num_bits * BLOCK_LEN / 8 bytes
compress(arr, bits) ==
    [x \in 1..((bits * BLOCK_LEN) \div 8) |-> CompressedByte(arr, bits, x - 1)]

\* value t (0-based) of the block packed in vals
DecompressedValue(vals, bits, t) ==
    LET j == t % SimdLanes
        r == t \div SimdLanes
        S(m) == vals[((m \div 4) * (4 * SimdLanes)) + (4 * j) + (m % 4) + 1]
        Digit(q) ==
            IF 8 * q >= bits THEN 0
            ELSE LET p == (r * bits) + (8 * q)
                     m == p \div 8
                     t8 == p % 8
                     w == IF bits - (8 * q) < 8 THEN bits - (8 * q) ELSE 8
                 IN  ((S(m) \div Pow2[t8 + 1])
                      + (IF t8 + w > 8 THEN (S(m + 1) % Pow2[t8 + 1]) * Pow2[9 - t8] ELSE 0))
                     % Pow2[w + 1]
    IN  <<Digit(0), Digit(1), Digit(2), Digit(3)>>

\* BitPacker::decompress(&self, compressed, decompressed, num_bits)
decompress(vals, bits) ==
    [t \in 1..BLOCK_LEN |-> DecompressedValue(vals, bits, t - 1)]

\* ----------------------------------------------------------------- Packer

\* the four lanes (lane i of the source is lane i + 1 here)
Lanes == 1..4

\* Option::None / Some(v) of cache.buffer
None == <<>>
Some(v) == <<v>>

\* impl Default for Cache
Cache_default ==
    [buffer     |-> None,
     head       |-> <<U32Zero, U32Zero, U32Zero, U32Zero>>,
     compressed |-> [i \in Lanes |-> [k \in 1..BLOCK_LEN |-> U32Zero]],
     idx        |-> 0]

\* Packer::new(): the cache and the PackedDecimals ([Vec<Block>; 4], usize),
\* here the pair <<blocks, count>>
Packer_new ==
    [cache  |-> Cache_default,
     packed |-> << <<<<>>, <<>>, <<>>, <<>>>>, 0 >>]

\* the Block pushed with the previous value of the lane as its head
NewBlock_lasthead(c, i) ==
    LET bits == num_bits(c.compressed[i])
    IN  [bits |-> bits,
         head |-> c.buffer[1][i],
         vals |-> compress(c.compressed[i], bits)]

\* the Block pushed for lane i
NewBlock(c, i) ==
    LET bits == num_bits(c.compressed[i])
    IN  [bits |-> bits,
         head |-> c.head[i],
         vals |-> compress(c.compressed[i], bits)]

\* pack that counts the deltas of the chunk but not its head
Packer_pack_count(p) ==
    IF p.cache.buffer = None THEN p
    ELSE [cache  |-> Cache_default,
          packed |-> << [i \in Lanes |-> Append(p.packed[1][i], NewBlock(p.cache, i))],
                        p.packed[2] + p.cache.idx >>]

\* pack that counts every chunk as a full one
Packer_pack_fullcount(p) ==
    IF p.cache.buffer = None THEN p
    ELSE [cache  |-> Cache_default,
          packed |-> << [i \in Lanes |-> Append(p.packed[1][i], NewBlock(p.cache, i))],
                        p.packed[2] + BLOCK_LEN + 1 >>]

\* pack without the early return on an empty cache
Packer_pack_noguard(p) ==
    [cache  |-> Cache_default,
     packed |-> << [i \in Lanes |-> Append(p.packed[1][i], NewBlock(p.cache, i))],
                   p.packed[2] + p.cache.idx + 1 >>]

\* pack that resets the chunk but keeps the previous value
Packer_pack_noreset(p) ==
    IF p.cache.buffer = None THEN p
    ELSE [cache  |-> [Cache_default EXCEPT !.buffer = p.cache.buffer],
          packed |-> << [i \in Lanes |-> Append(p.packed[1][i], NewBlock(p.cache, i))],
                        p.packed[2] + p.cache.idx + 1 >>]

\* pack whose loop stops one lane short (for i in 0..3)
Packer_pack_skiplane(p) ==
    IF p.cache.buffer = None THEN p
    ELSE [cache  |-> Cache_default,
          packed |-> << [i \in Lanes |->
                            IF i < 4 THEN Append(p.packed[1][i], NewBlock(p.cache, i))
                            ELSE p.packed[1][i]],
                        p.packed[2] + p.cache.idx + 1 >>]

\* pack that resets the cache but reuses the delta buffer as it is
Packer_pack_dirty(p) ==
    IF p.cache.buffer = None THEN p
    ELSE [cache  |-> [Cache_default EXCEPT !.compressed = p.cache.compressed],
          packed |-> << [i \in Lanes |-> Append(p.packed[1][i], NewBlock(p.cache, i))],
                        p.packed[2] + p.cache.idx + 1 >>]

\* pack that stores the new block as the whole lane list
Packer_pack_replace(p) ==
    IF p.cache.buffer = None THEN p
    ELSE [cache  |-> Cache_default,
          packed |-> << [i \in Lanes |-> <<NewBlock(p.cache, i)>>],
                        p.packed[2] + p.cache.idx + 1 >>]

\* fn pack(&mut self)
Packer_pack(p) ==
    IF p.cache.buffer = None THEN p
    ELSE [cache  |-> Cache_default,
          packed |-> << [i \in Lanes |-> Append(p.packed[1][i], NewBlock(p.cache, i))],
                        p.packed[2] + p.cache.idx + 1 >>]

\* load_decimal that stores the lane value instead of its delta
load_decimal_noxor(p, value) ==
    LET parsed == zip_u8(serialize(value))
        c1 == IF p.cache.buffer # None
              THEN [p.cache EXCEPT
                      !.compressed =
                          << [@[1] EXCEPT ![p.cache.idx + 1] = parsed[1]],
                             [@[2] EXCEPT ![p.cache.idx + 1] = parsed[2]],
                             [@[3] EXCEPT ![p.cache.idx + 1] = parsed[3]],
                             [@[4] EXCEPT ![p.cache.idx + 1] = parsed[4]] >>,
                      !.idx = @ + 1]
              ELSE [p.cache EXCEPT !.head = parsed]
        c2 == [c1 EXCEPT !.buffer = Some(parsed)]
        q  == [p EXCEPT !.cache = c2]
    IN  IF c2.idx = BLOCK_LEN THEN Packer_pack(q) ELSE q

\* load_decimal that flushes a chunk of 256 values (255 deltas)
load_decimal_early(p, value) ==
    LET parsed == zip_u8(serialize(value))
        c1 == IF p.cache.buffer # None
              THEN LET last == p.cache.buffer[1]
                   IN  [p.cache EXCEPT
                          !.compressed =
                              << [@[1] EXCEPT ![p.cache.idx + 1] = XorU32(parsed[1], last[1])],
                                 [@[2] EXCEPT ![p.cache.idx + 1] = XorU32(parsed[2], last[2])],
                                 [@[3] EXCEPT ![p.cache.idx + 1] = XorU32(parsed[3], last[3])],
                                 [@[4] EXCEPT ![p.cache.idx + 1] = XorU32(parsed[4], last[4])] >>,
                          !.idx = @ + 1]
              ELSE [p.cache EXCEPT !.head = parsed]
        c2 == [c1 EXCEPT !.buffer = Some(parsed)]
        q  == [p EXCEPT !.cache = c2]
    IN  IF c2.idx = BLOCK_LEN - 1 THEN Packer_pack(q) ELSE q

\* load_decimal that keeps the first value of the chunk as the previous value
load_decimal_stale(p, value) ==
    LET parsed == zip_u8(serialize(value))
        c1 == IF p.cache.buffer # None
              THEN LET last == p.cache.buffer[1]
                   IN  [p.cache EXCEPT
                          !.compressed =
                              << [@[1] EXCEPT ![p.cache.idx + 1] = XorU32(parsed[1], last[1])],
                                 [@[2] EXCEPT ![p.cache.idx + 1] = XorU32(parsed[2], last[2])],
                                 [@[3] EXCEPT ![p.cache.idx + 1] = XorU32(parsed[3], last[3])],
                                 [@[4] EXCEPT ![p.cache.idx + 1] = XorU32(parsed[4], last[4])] >>,
                          !.idx = @ + 1]
              ELSE [p.cache EXCEPT !.head = parsed, !.buffer = Some(parsed)]
        q  == [p EXCEPT !.cache = c1]
    IN  IF c1.idx = BLOCK_LEN THEN Packer_pack(q) ELSE q

\* load_decimal that flushes only once idx has passed BLOCK_LEN
load_decimal_late(p, value) ==
    LET parsed == zip_u8(serialize(value))
        c1 == IF p.cache.buffer # None
              THEN LET last == p.cache.buffer[1]
                   IN  [p.cache EXCEPT
                          !.compressed =
                              << [@[1] EXCEPT ![p.cache.idx + 1] = XorU32(parsed[1], last[1])],
                                 [@[2] EXCEPT ![p.cache.idx + 1] = XorU32(parsed[2], last[2])],
                                 [@[3] EXCEPT ![p.cache.idx + 1] = XorU32(parsed[3], last[3])],
                                 [@[4] EXCEPT ![p.cache.idx + 1] = XorU32(parsed[4], last[4])] >>,
                          !.idx = @ + 1]
              ELSE [p.cache EXCEPT !.head = parsed]
        c2 == [c1 EXCEPT !.buffer = Some(parsed)]
        q  == [p EXCEPT !.cache = c2]
    IN  IF c2.idx > BLOCK_LEN THEN Packer_pack(q) ELSE q

\* pub fn load_decimal(&mut self, value: &Decimal); the loop for i in 0..4 is
\* written out lane by lane
load_decimal(p, value) ==
    LET parsed == zip_u8(serialize(value))
        c1 == IF p.cache.buffer # None
              THEN LET last == p.cache.buffer[1]
                   IN  [p.cache EXCEPT
                          !.compressed =
                              << [@[1] EXCEPT ![p.cache.idx + 1] = XorU32(parsed[1], last[1])],
                                 [@[2] EXCEPT ![p.cache.idx + 1] = XorU32(parsed[2], last[2])],
                                 [@[3] EXCEPT ![p.cache.idx + 1] = XorU32(parsed[3], last[3])],
                                 [@[4] EXCEPT ![p.cache.idx + 1] = XorU32(parsed[4], last[4])] >>,
                          !.idx = @ + 1]
              ELSE [p.cache EXCEPT !.head = parsed]
        c2 == [c1 EXCEPT !.buffer = Some(parsed)]
        q  == [p EXCEPT !.cache = c2]
    IN  IF c2.idx = BLOCK_LEN THEN Packer_pack(q) ELSE q

\* ----------------------------------------------------------- Packer::load
\* A &str is the tuple of its characters, each a one-character string.

\* value.trim_matches('0'): the literal without its leading and trailing '0's
trim_matches_0(value) ==
    LET keep == {k \in 1..Len(value) : value[k] # "0"}
    IN  IF keep = {} THEN <<>>
        ELSE SubSeq(value, CHOOSE k \in keep : \A j \in keep : k <= j,
                           CHOOSE k \in keep : \A j \in keep : j <= k)

DigitChars == <<"0", "1", "2", "3", "4", "5", "6", "7", "8", "9">>

IsDigit(c) == \E k \in 1..10 : DigitChars[k] = c

DigitValue(c) == (CHOOSE k \in 1..10 : DigitChars[k] = c) - 1

RECURSIVE MulAdd(_, _, _, _)
\* factor * m + carry for a number m given by its base-256 digits, least
\* significant first, from digit k on; the last element is the carry out
MulAdd(m, factor, carry, k) ==
    IF k > Len(m) THEN <<carry>>
    ELSE LET v == (m[k] * factor) + carry
         IN  <<v % 256>> \o MulAdd(m, factor, v \div 256, k + 1)

\* the 96-bit mantissa 0
MantissaZero == <<0, 0, 0, 0, 0, 0, 0, 0, 0, 0, 0, 0>>

\* the largest scale of a Decimal
MAX_PRECISION == 28

Err == [kind |-> "err"]

RECURSIVE ParseFrom(_, _, _, _, _, _)
\* the digits and the point of a literal from character k on: mant and scale
\* read so far, point: a '.' was read, has: a digit was read
ParseFrom(str, k, mant, scale, point, has) ==
    IF k > Len(str)
    THEN IF has THEN [kind |-> "ok", mant |-> mant, scale |-> scale] ELSE Err
    ELSE IF IsDigit(str[k])
    THEN LET r == MulAdd(mant, 10, DigitValue(str[k]), 1)
         IN  IF r[13] # 0 \/ (point /\ scale = MAX_PRECISION) THEN Err
             ELSE ParseFrom(str, k + 1, SubSeq(r, 1, 12),
                            IF point THEN scale + 1 ELSE scale, point, TRUE)
    ELSE IF str[k] = "." /\ ~point
    THEN ParseFrom(str, k + 1, mant, scale, TRUE, has)
    ELSE Err

\* Decimal::from_str(s) -> Result<Decimal, Error> for literals made of a sign,
\* digits, one point and other (invalid) characters: the mantissa is the
\* digit string, the scale the number of digits after the point.  The
\* library rounds a literal of more than 28 decimals or 96 bits and accepts
\* '_' between digits; the literals of the model have neither, and such a
\* literal is an error here.
from_str(str) ==
    LET neg   == Len(str) > 0 /\ str[1] = "-"
        first == IF Len(str) > 0 /\ str[1] \in {"-", "+"} THEN 2 ELSE 1
        r     == ParseFrom(str, first, MantissaZero, 0, FALSE, FALSE)
    IN  IF r.kind = "err" THEN Err
        ELSE [kind |-> "ok",
              dec  |-> Dec(neg /\ r.mant # MantissaZero, r.scale,
                           SubSeq(r.mant, 9, 12), SubSeq(r.mant, 5, 8), SubSeq(r.mant, 1, 4))]

\* load that ingests zero for a literal that does not parse
load_zero(p, trim_, value) ==
    LET result == IF trim_ THEN trim_matches_0(value) ELSE value
        parsed == from_str(result)
    IN  IF parsed.kind = "err"
        THEN [p |-> load_decimal(p, Dec(FALSE, 0, U32Zero, U32Zero, U32Zero)), res |-> "ok"]
        ELSE [p |-> load_decimal(p, parsed.dec), res |-> "ok"]

\* pub fn load(&mut self, value: &str) -> Result<(), Error>, for a packer p
\* whose trim field is trim_: the packer after the call, and Ok or Err
load(p, trim_, value) ==
    LET result == IF trim_ THEN trim_matches_0(value) ELSE value
        parsed == from_str(result)
    IN  IF parsed.kind = "err"
        THEN [p |-> p, res |-> "err"]
        ELSE [p |-> load_decimal(p, parsed.dec), res |-> "ok"]

\* --------------------------------------------------------------- unpack

RECURSIVE PushDeltas(_, _, _, _)
\* for v in decompress { last ^= v; unpacked[i].push(last) }: the values pushed
\* for the slots lo .. hi - 1 (0-based), starting from last.  The loop is
\* split by halves to keep the evaluation shallow.
PushDeltas(dec, lo, hi, last) ==
    IF hi - lo = 1 THEN <<XorU32(last, dec[lo + 1])>>
    ELSE LET mid   == (lo + hi) \div 2
             left  == PushDeltas(dec, lo, mid, last)
             right == PushDeltas(dec, mid, hi, left[Len(left)])
         IN  left \o right

RECURSIVE UnpackLane_nohead(_, _)
\* the accumulator without the head of each block
UnpackLane_nohead(blocks, k) ==
    IF k = 0 THEN <<>>
    ELSE LET block == blocks[k]
             dec   == decompress(block.vals, block.bits)
         IN  UnpackLane_nohead(blocks, k - 1)
             \o PushDeltas(dec, 0, BLOCK_LEN, block.head)

RECURSIVE UnpackLane(_, _)
\* the accumulator unpacked[i] after the first k blocks of the lane
UnpackLane(blocks, k) ==
    IF k = 0 THEN <<>>
    ELSE LET block == blocks[k]
             dec   == decompress(block.vals, block.bits)
         IN  (UnpackLane(blocks, k - 1) \o <<block.head>>)
             \o PushDeltas(dec, 0, BLOCK_LEN, block.head)

\* BitPacker::decompress asserts that its input holds num_bits * 32 bytes
DecompressPanics(block) ==
    block.bits > 32 \/ Len(block.vals) < (block.bits * BLOCK_LEN) \div 8

Panic == [kind |-> "panic", vals |-> <<>>]
Ok(v) == [kind |-> "ok", vals |-> v]

\* unpack that joins every reconstructed position (for i in 0..unpacked[0].len())
unpack_all(values) ==
    IF \E i \in Lanes : \E k \in 1..Len(values[1][i]) : DecompressPanics(values[1][i][k])
    THEN Panic
    ELSE
        LET u0 == UnpackLane(values[1][1], Len(values[1][1]))
            u1 == UnpackLane(values[1][2], Len(values[1][2]))
            u2 == UnpackLane(values[1][3], Len(values[1][3]))
            u3 == UnpackLane(values[1][4], Len(values[1][4]))
        IN  IF \/ Len(u0) > Len(u1) \/ Len(u0) > Len(u2) \/ Len(u0) > Len(u3)
            THEN Panic
            ELSE Ok([i \in 1..Len(u0) |->
                        deserialize(unzip_u8(<<u0[i], u1[i], u2[i], u3[i]>>))])

\* pub fn unpack(values: &PackedDecimals) -> Vec<Decimal>: Ok(result), or the
\* panic of an out-of-bounds index unpacked[k][i] (or of decompress)
unpack(values) ==
    IF \E i \in Lanes : \E k \in 1..Len(values[1][i]) : DecompressPanics(values[1][i][k])
    THEN Panic
    ELSE
        LET u0 == UnpackLane(values[1][1], Len(values[1][1]))
            u1 == UnpackLane(values[1][2], Len(values[1][2]))
            u2 == UnpackLane(values[1][3], Len(values[1][3]))
            u3 == UnpackLane(values[1][4], Len(values[1][4]))
        IN  IF \/ values[2] > Len(u0) \/ values[2] > Len(u1)
               \/ values[2] > Len(u2) \/ values[2] > Len(u3)
            THEN Panic
            ELSE Ok([i \in 1..values[2] |->
                        deserialize(unzip_u8(<<u0[i], u1[i], u2[i], u3[i]>>))])

RECURSIVE LoadAll(_, _, _, _)
\* for d in values { p.load_decimal(d) } over the values lo .. hi (1-based).
\* The loop is split by halves to keep the evaluation shallow; the test on
\* the count of the first half (a usize, never negative) makes the first
\* half be evaluated before the second is entered.
LoadAll(p, values, lo, hi) ==
    IF lo > hi THEN p
    ELSE IF lo = hi THEN load_decimal(p, values[lo])
    ELSE LET mid  == (lo + hi) \div 2
             left == LoadAll(p, values, lo, mid)
         IN  IF left.packed[2] >= 0 THEN LoadAll(left, values, mid + 1, hi) ELSE left

\* pack that returns p.packed without the final p.pack()
pack_nofinal(values) ==
    LoadAll(Packer_new, values, 1, Len(values)).packed

\* pub fn pack(values: &[Decimal]) -> PackedDecimals
pack(values) ==
    Packer_pack(LoadAll(Packer_new, values, 1, Len(values))).packed

\* ------------------------------------------------------------- the inputs

\* The decimals fed to the packer: the four prices of tests::pack_values, the
\* extremes of tests::zipper, and a value whose mantissa bytes all differ.
Table ==
    << Dec(FALSE, 2, U32Zero, U32Zero, U32(887485)),            \* 8874.85
       Dec(FALSE, 2, U32Zero, U32Zero, U32(887514)),            \* 8875.14
       Dec(FALSE, 2, U32Zero, U32Zero, U32(887499)),            \* 8874.99
       Dec(FALSE, 2, U32Zero, U32Zero, U32(887498)),            \* 8874.98
       Dec(FALSE, 0, <<255, 255, 255, 255>>, <<255, 255, 255, 255>>,
                     <<255, 255, 255, 255>>),                   \* Decimal::MAX
       Dec(TRUE, 0, <<255, 255, 255, 255>>, <<255, 255, 255, 255>>,
                    <<255, 255, 255, 255>>),                    \* Decimal::MIN
       Dec(FALSE, 1, U32Zero, U32Zero, U32Zero),                \* 0.0
       Dec(TRUE, 1, U32Zero, U32Zero, U32(10)),                 \* -1.0
       Dec(FALSE, 15, U32Zero, <<180, 19, 3, 0>>, <<233, 82, 103, 23>>),
                                                                \* 0.866089137820393
       Dec(TRUE, 28, <<1, 2, 3, 4>>, <<5, 6, 7, 8>>, <<9, 10, 11, 12>>) >>

\* The input slices: slice s repeats the Table entries Patterns[s] in order.
Patterns == << <<1, 2, 3, 4>>, <<5, 6, 7, 7, 8, 9, 10>> >>

\* value i (1-based) of input slice s
StreamAt(s, i) == Table[Patterns[s][((i - 1) % Len(Patterns[s])) + 1]]

\* the stream `values` as a corrupted copy: kind says what was damaged
Tampered(values, kind) ==
    CASE kind = "count" ->      \* one more than the blocks can hold
            << values[1], ((BLOCK_LEN + 1) * Len(values[1][1])) + 1 >>
      [] kind = "short" ->      \* the last lane lost its last block
            << [values[1] EXCEPT ![4] = SubSeq(@, 1, Len(@) - 1)], values[2] >>
      [] kind = "long" ->       \* the first lane has its last block twice
            << [values[1] EXCEPT ![1] = Append(@, @[Len(@)])], values[2] >>
      [] OTHER -> values

TamperKinds == {"count", "short", "long"}

\* the 16-byte arrays and 4-lane words the lane splitter is probed with:
\* byte k is a * k + c (mod 256), so a = 1 makes all 16 bytes differ
ByteProbe(a, c) == [k \in 1..16 |-> ((a * k) + (37 * c)) % 256]

LaneProbe(a, c) ==
    LET b == ByteProbe(a, c)
    IN  << <<b[1], b[2], b[3], b[4]>>, <<b[5], b[6], b[7], b[8]>>,
           <<b[9], b[10], b[11], b[12]>>, <<b[13], b[14], b[15], b[16]>> >>

\* the first m values of input slice s
Slice(s, m) == [i \in 1..m |-> StreamAt(s, i)]

\* The literals passed to load: the first is a literal of tests::pack_values.
Literals ==
    << <<"8", "8", "7", "4", ".", "8", "5", "0", "0", "0", "0", "0", "0", "0", "0">>,
       <<"8", "8", "7", "4", ".", "8", "5">>,
       <<"1", "0", "0">>,
       <<"0">>,
       <<"-", "1", ".", "5", "0">>,
       <<"a", "b", "c">>,
       <<>> >>

\* the largest stride a and offset index c of the probes
MaxStride == 8

MaxOffset == 7

\* the longest input
MaxLen == 515

\* how often the caller finalizes one packer
MaxPacks == 2

\* how many values the caller still feeds to a packer it has finalized
MaxResume == 2

\* the caller finalizes and decodes within Margin values of a block boundary
Margin == 3

\* a second shard holds up to MaxShard values, or one full chunk more
MaxShard == 2

\* how many literals the caller passes to load
MaxLits == 2

\* --------------------------------------------------------- state machine

VARIABLES
    cache,      \* Packer.cache
    packed,     \* Packer.packed
    src,        \* which input slice is being fed
    n,          \* how many of its values have been ingested
    marks,      \* the value of n at each finalize of the caller, in order
    given,      \* what the last decode was given: "self" is Packer.packed,
                \* a TamperKind is Tampered(Packer.packed, kind)
    result,     \* outcome of the last unload / unpack
    shard,      \* the second shard of a joined decode: <<slice, length>>
    trim,       \* Packer.trim
    lits,       \* the calls of load so far: the literal (its number in
                \* Literals), the trim flag at the call and the Result
    zdir,       \* lane splitter probe: "zip" (zip_u8 then unzip_u8) or "unzip"
    zin,        \* its input
    zmid,       \* the image of zin
    zout        \* the image of zmid under the inverse direction

lvars == <<trim, lits>>
pvars == <<cache, packed, src, n, marks, given, result, shard, trim, lits>>
zvars == <<zdir, zin, zmid, zout>>
vars == <<cache, packed, src, n, marks, given, result, shard, trim, lits, zdir, zin, zmid, zout>>

Self == [cache |-> cache, packed |-> packed]

NoResult == [kind |-> "none", vals |-> <<>>]

\* the values ingested so far
Values == [i \in 1..n |-> StreamAt(src, i)]

\* the points at which the caller finalizes or decodes
AtProbe ==
    \/ marks # <<>>
    \/ n % (BLOCK_LEN + 1) <= Margin
    \/ n % (BLOCK_LEN + 1) >= (BLOCK_LEN + 1) - Margin

NoProbe ==
    /\ zdir = "none"
    /\ zin = <<>>
    /\ zmid = <<>>
    /\ zout = <<>>

Init ==
    /\ cache = Packer_new.cache
    /\ packed = Packer_new.packed
    /\ src \in 1..Len(Patterns)
    /\ n = 0
    /\ marks = <<>>
    /\ given = "none"
    /\ result = NoResult
    /\ shard = <<>>
    /\ trim = TRUE
    /\ lits = <<>>
    /\ NoProbe

\* p.load_decimal(d) with the next value of the slice
LoadDecimal ==
    /\ given = "none"
    /\ n < MaxLen
    /\ marks # <<>> => n < marks[1] + MaxResume
    /\ LET q == load_decimal(Self, StreamAt(src, n + 1))
       IN  /\ cache' = q.cache
           /\ packed' = q.packed
    /\ n' = n + 1
    /\ UNCHANGED <<src, marks, given, result, shard, lvars, zvars>>

\* p.pack() called by the owner of the packer (pack(), line 123)
Finalize ==
    /\ given = "none"
    /\ AtProbe
    /\ Len(marks) < MaxPacks
    /\ LET q == Packer_pack(Self)
       IN  /\ cache' = q.cache
           /\ packed' = q.packed
    /\ marks' = Append(marks, n)
    /\ UNCHANGED <<src, n, given, result, shard, lvars, zvars>>

\* p.unload(), or unpack(&p.packed)
Unload ==
    /\ given = "none"
    /\ AtProbe
    /\ given' = "self"
    /\ result' = unpack(packed)
    /\ UNCHANGED <<cache, packed, src, n, marks, shard, lvars, zvars>>

\* unpack(&s) of a stream s that was returned by pack(values) and damaged since
UnpackForeign ==
    /\ given = "none"
    /\ Len(marks) = 1
    /\ n = marks[1]
    /\ \E kind \in TamperKinds :
          /\ kind # "count" => Len(packed[1][1]) > 0
          /\ given' = kind
          /\ result' = unpack(Tampered(packed, kind))
    /\ UNCHANGED <<cache, packed, src, n, marks, shard, lvars, zvars>>

\* the caller drops the decoded Vec and goes on
Return ==
    /\ given # "none"
    /\ given' = "none"
    /\ result' = NoResult
    /\ shard' = <<>>
    /\ UNCHANGED <<cache, packed, src, n, marks, lvars, zvars>>

Next == LoadDecimal \/ Finalize \/ Unload \/ UnpackForeign \/ Return

Spec == Init /\ [][Next]_vars

\* ----------------------------------------------- two shards, joined
\* A caller encodes two shards on their own and decodes the joined stream:
\* the first shard is this packer's finalized stream, the second is
\* pack(Slice(s, m)).

ShardLens == (0..MaxShard) \cup {BLOCK_LEN + 1 + MaxShard}

\* the lane lists of a followed by those of b, and the sum of the counts
Join(a, b) == << [i \in Lanes |-> a[1][i] \o b[1][i]], a[2] + b[2] >>

\* unpack(&j) of the join j of pack(A) and pack(B)
UnpackJoined ==
    /\ given = "none"
    /\ Len(marks) = 1
    /\ n = marks[1]
    /\ \E s \in 1..Len(Patterns), m \in ShardLens :
          /\ shard' = <<s, m>>
          /\ given' = "joined"
          /\ result' = unpack(Join(packed, pack(Slice(s, m))))
    /\ UNCHANGED <<cache, packed, src, n, marks, lvars, zvars>>

ShardNext == LoadDecimal \/ Finalize \/ UnpackJoined \/ Return

SpecShard == Init /\ [][ShardNext]_vars

\* ------------------------------------------------- loading literals
\* A caller sets the trim flag of a new packer, passes literals to load,
\* then finalizes and decodes.

\* pub fn with_trim(&mut self, trim: bool), called before the first load
WithTrim ==
    /\ given = "none"
    /\ lits = <<>>
    /\ marks = <<>>
    /\ \E t \in BOOLEAN : trim' = t
    /\ UNCHANGED <<cache, packed, src, n, marks, given, result, shard, lits, zvars>>

\* p.load(s) for a literal s
Load ==
    /\ given = "none"
    /\ marks = <<>>
    /\ Len(lits) < MaxLits
    /\ \E k \in 1..Len(Literals) :
          LET r == load(Self, trim, Literals[k])
          IN  /\ cache' = r.p.cache
              /\ packed' = r.p.packed
              /\ n' = IF r.res = "ok" THEN n + 1 ELSE n
              /\ lits' = Append(lits, [lit |-> k, trim |-> trim, res |-> r.res])
    /\ UNCHANGED <<src, marks, given, result, shard, trim, zvars>>

LoadInit == Init /\ src = 1

LoadNext == WithTrim \/ Load \/ Finalize \/ Unload \/ Return

SpecLoad == LoadInit /\ [][LoadNext]_vars

\* ------------------------------------------- the lane splitter on its own

ZipInit ==
    /\ cache = Packer_new.cache
    /\ packed = Packer_new.packed
    /\ src = 1
    /\ n = 0
    /\ marks = <<>>
    /\ given = "none"
    /\ result = NoResult
    /\ shard = <<>>
    /\ trim = TRUE
    /\ lits = <<>>
    /\ NoProbe

\* unzip_u8(zip_u8(b)) for a 16-byte array b
ZipUnzip ==
    /\ \E b \in {ByteProbe(a, c) : a \in 0..MaxStride, c \in 0..MaxOffset}
              \cup {serialize(Table[k]) : k \in 1..Len(Table)} :
          /\ zdir' = "zip"
          /\ zin' = b
          /\ zmid' = zip_u8(b)
          /\ zout' = unzip_u8(zip_u8(b))
    /\ UNCHANGED pvars

\* zip_u8(unzip_u8(l)) for four lanes l
UnzipZip ==
    /\ \E l \in {LaneProbe(a, c) : a \in 0..MaxStride, c \in 0..MaxOffset} :
          /\ zdir' = "unzip"
          /\ zin' = l
          /\ zmid' = unzip_u8(l)
          /\ zout' = zip_u8(unzip_u8(l))
    /\ UNCHANGED pvars

ZipNext == ZipUnzip \/ UnzipZip

SpecZip == ZipInit /\ [][ZipNext]_vars

\* ------------------------------------------------------------ properties

\* a block holds a head and BLOCK_LEN deltas
ValuesPerBlock == BLOCK_LEN + 1

\* every lane list holds k blocks
BlocksPerLane(k) == \A i \in Lanes : Len(packed[1][i]) = k

\* the values still buffered in the cache
CachedValues == IF cache.buffer = None THEN 0 ELSE cache.idx + 1

\* the packer is as pack(values) leaves it: n values loaded, then one finalize
JustPacked == Len(marks) = 1 /\ marks[1] = n

\* the last decode returned exactly the first k ingested values, in order
Decoded(k) ==
    /\ result.kind = "ok"
    /\ Len(result.vals) = k
    /\ \A i \in 1..k : result.vals[i] = StreamAt(src, i)

\* C1: unpack(pack(values)) has the length of values and equals values element
\* by element, for every input slice and length (0, 1, 255..258, 512..514
\* among them).
RoundTrip ==
    (JustPacked /\ given = "self") =>
        (result.kind = "ok" /\ Len(result.vals) = Len(Values) /\ result.vals = Values)

RoundTripWitness == JustPacked /\ given = "self" /\ n = (2 * BLOCK_LEN) + 1 /\ Decoded(n)

\* C2: unzip_u8(zip_u8(b)) = b for every 16-byte array b and
\* zip_u8(unzip_u8(l)) = l for every four lanes l; both are total (they yield
\* 4 words of 4 bytes, 16 bytes).
ZipInverse ==
    /\ zdir = "zip" =>
          /\ zout = zin
          /\ Len(zmid) = 4
          /\ \A i \in 1..4 : Len(zmid[i]) = 4 /\ \A k \in 1..4 : zmid[i][k] \in Byte
    /\ zdir = "unzip" =>
          /\ zout = zin
          /\ Len(zmid) = 16
          /\ \A k \in 1..16 : zmid[k] \in Byte

ZipInverseWitness == zdir = "zip" /\ zin = ByteProbe(1, 1) /\ zmid[1] = <<41, 40, 39, 38>>

\* C3: a stream of exactly 257 decimals, ingested and finalized, leaves exactly
\* 1 block in each lane and total_count = 257, and decodes to exactly those 257
\* decimals.
Truncation257 ==
    (JustPacked /\ n = ValuesPerBlock) =>
        /\ BlocksPerLane(1)
        /\ packed[2] = ValuesPerBlock
        /\ given = "self" => Decoded(ValuesPerBlock)

Truncation257Witness == JustPacked /\ n = ValuesPerBlock /\ given = "self" /\ src = 2

\* C4: 8874.85, 8875.14, 8874.99, 8874.98 repeated 65 times (260 values): after
\* the loads every lane holds one full block (the first 257 values) and the
\* cache the other 3; the finalize adds a second block per lane and makes
\* total_count 260; decoding returns the 260 values in order, 8874.85 first.
Scenario260 ==
    (src = 1 /\ n = 260) =>
        /\ marks = <<>> =>
              /\ BlocksPerLane(1)
              /\ packed[2] = 257
              /\ CachedValues = 3
        /\ JustPacked =>
              /\ BlocksPerLane(2)
              /\ packed[2] = 260
              /\ given = "self" =>
                    /\ Decoded(260)
                    /\ result.vals[1] = Dec(FALSE, 2, U32Zero, U32Zero, U32(887485))
                    /\ \A i \in 1..260 : result.vals[i] = Table[((i - 1) % 4) + 1]

Scenario260Witness == src = 1 /\ n = 260 /\ JustPacked /\ given = "self"

\* C5: a packer that has ingested n decimals and was never finalized holds
\* floor(n / 257) blocks in every lane and total_count = 257 * floor(n / 257),
\* and unload() returns exactly the first 257 * floor(n / 257) values: the
\* values still in the cache are not returned.
UnloadBeforeFinalize ==
    marks = <<>> =>
        /\ BlocksPerLane(n \div ValuesPerBlock)
        /\ packed[2] = ValuesPerBlock * (n \div ValuesPerBlock)
        /\ CachedValues = n % ValuesPerBlock
        /\ given = "self" => Decoded(ValuesPerBlock * (n \div ValuesPerBlock))

UnloadBeforeFinalizeWitness ==
    marks = <<>> /\ n = 260 /\ given = "self" /\ Len(result.vals) = 257

\* C6: finalizing a packer that never ingested a value gives total_count = 0
\* and no block in any lane, and decoding that stream returns the empty
\* sequence without error.
EmptyInput ==
    (n = 0 /\ marks # <<>>) =>
        /\ packed[2] = 0
        /\ BlocksPerLane(0)
        /\ given = "self" => result = Ok(<<>>)

EmptyInputWitness == n = 0 /\ marks # <<>> /\ given = "self"

\* C7: a finalize appends exactly one block per lane when the chunk has a
\* recorded head and changes nothing otherwise, and a second finalize right
\* after it leaves block lists, total_count and cache unchanged.
FinalizeIdempotent ==
    [][Finalize =>
          /\ IF cache.buffer # None
             THEN /\ \A i \in Lanes :
                        /\ Len(packed'[1][i]) = Len(packed[1][i]) + 1
                        /\ SubSeq(packed'[1][i], 1, Len(packed[1][i])) = packed[1][i]
                  /\ packed'[2] = packed[2] + CachedValues
             ELSE UNCHANGED <<cache, packed>>
          /\ Packer_pack([cache |-> cache', packed |-> packed'])
                = [cache |-> cache', packed |-> packed']]_vars

FinalizeIdempotentWitness ==
    Len(marks) = 2 /\ marks[1] = marks[2] /\ n = marks[2] /\ n > 0 /\ packed[2] = n

\* C8 as stated: after an input of a positive multiple of 256 values the
\* finalize sees an empty cache and is a no-op.
MultipleOf256NoOp ==
    [][(Finalize /\ marks = <<>> /\ n > 0 /\ n % BLOCK_LEN = 0) =>
          (cache.buffer = None /\ UNCHANGED <<cache, packed>>)]_vars

\* C8, amended: after an input of a positive multiple of 257 values (a head
\* and 256 deltas per chunk) every chunk was flushed during ingest: the
\* finalize sees an empty cache and is a no-op.
MultipleOf257NoOp ==
    [][(Finalize /\ marks = <<>> /\ n > 0 /\ n % ValuesPerBlock = 0) =>
          (cache = Cache_default /\ UNCHANGED <<cache, packed>>)]_vars

MultipleOf257NoOpWitness ==
    JustPacked /\ n = 2 * ValuesPerBlock /\ BlocksPerLane(2) /\ packed[2] = n

\* the lane lists disagree in length, or total_count exceeds what some lane
\* can reconstruct
Malformed(values) ==
    \/ \E i, j \in Lanes : Len(values[1][i]) # Len(values[1][j])
    \/ \E i \in Lanes : values[2] > ValuesPerBlock * Len(values[1][i])

\* C9: unpack of a malformed stream ends in a distinct "corrupt packed stream"
\* error: it neither panics nor returns decimals.
CorruptStreamRejected ==
    (given \in TamperKinds /\ Malformed(Tampered(packed, given))) =>
        result.kind = "corrupt"

\* C10: total_count is the number of values of the flushed chunks (a head and
\* the real deltas of each), i.e. all ingested values but those in the cache;
\* after a finalize it is the number of values ingested, also when the last
\* chunk is partial, and it never exceeds 257 * the block count.
TotalCount ==
    /\ packed[2] + CachedValues = n
    /\ (marks # <<>> /\ marks[Len(marks)] = n) => packed[2] = n
    /\ packed[2] <= ValuesPerBlock * Len(packed[1][1])

TotalCountWitness ==
    /\ Len(marks) = 2
    /\ marks[2] = n
    /\ marks[1] < n
    /\ packed[2] = n
    /\ packed[2] < ValuesPerBlock * Len(packed[1][1])

\* C11: between operations of a Packer, and in the stream that pack returns,
\* the four lane block lists have the same length (a flush pushes one block
\* to each of the four lanes or to none).
LaneAlignment ==
    \A i, j \in Lanes : Len(packed[1][i]) = Len(packed[1][j])

LaneAlignmentWitness == JustPacked /\ n = 260 /\ BlocksPerLane(2)

RECURSIVE ChunksFrom(_, _)
\* the chunks of the input as <<first, last>> pairs of value numbers, from
\* segment j on: the finalizes cut the input into segments, every segment is
\* cut into chunks of ValuesPerBlock values, and the last chunk of a segment
\* is emitted only if a finalize closed it
ChunksFrom(bnd, j) ==
    IF j >= Len(bnd) THEN <<>>
    ELSE LET base   == bnd[j]
             len    == bnd[j + 1] - bnd[j]
             closed == j + 1 < Len(bnd)
             cnt    == IF closed THEN (len + BLOCK_LEN) \div ValuesPerBlock
                       ELSE len \div ValuesPerBlock
             last(t) == IF base + (ValuesPerBlock * t) < bnd[j + 1]
                        THEN base + (ValuesPerBlock * t) ELSE bnd[j + 1]
         IN  [t \in 1..cnt |-> <<base + (ValuesPerBlock * (t - 1)) + 1, last(t)>>]
             \o ChunksFrom(bnd, j + 1)

\* the chunks whose blocks the packer has emitted
Chunks == ChunksFrom((<<0>> \o marks) \o <<n>>, 1)

\* lane i of input value t
LaneOf(t, i) == zip_u8(serialize(StreamAt(src, t)))[i]

\* the bit length of the largest delta of lane i within chunk c
WidthOf(c, i) ==
    LET S == {0} \cup {BitLen32(XorU32(LaneOf(t, i), LaneOf(t - 1, i))) : t \in (c[1] + 1)..c[2]}
    IN  CHOOSE m \in S : \A x \in S : x <= m

\* block b is the block of lane i for chunk c
BlockOf(b, c, i) ==
    /\ b.head = LaneOf(c[1], i)
    /\ b.bits \in 0..32
    /\ b.bits = WidthOf(c, i)
    /\ Len(b.vals) = (b.bits * BLOCK_LEN) \div 8
    /\ (\A t \in c[1]..c[2] : LaneOf(t, i) = LaneOf(c[1], i)) => (b.bits = 0 /\ b.vals = <<>>)

\* C12: every block, when it is emitted, has the raw lane value of the first
\* decimal of its chunk as head, the bit length of the chunk's largest delta
\* as width (0..32) and a payload of width * 256 / 8 bytes; a lane that is
\* constant over the chunk gives width 0 and an empty payload; the first full
\* block of the 8874.85 / 8875.14 / 8874.99 / 8874.98 input has the widths
\* (0, 7, 0, 0) and the heads (512, 887485, 0, 0).
BlockShape ==
    [][Len(packed'[1][1]) > Len(packed[1][1]) =>
          LET k == Len(packed'[1][1])
          IN  /\ Len(Chunks') = k
              /\ \A i \in Lanes :
                    /\ Len(packed'[1][i]) = k
                    /\ BlockOf(packed'[1][i][k], Chunks'[k], i)
              /\ (src = 1 /\ Chunks'[k] = <<1, ValuesPerBlock>>) =>
                    /\ [i \in Lanes |-> packed'[1][i][1].bits] = <<0, 7, 0, 0>>
                    /\ [i \in Lanes |-> packed'[1][i][1].head]
                          = <<U32(512), U32(887485), U32Zero, U32Zero>>]_vars

BlockShapeWitness ==
    /\ src = 2
    /\ Len(marks) = 2
    /\ Len(packed[1][2]) = 3
    /\ packed[1][2][1].bits = 32
    /\ packed[1][2][3].bits < 32
    /\ packed[1][1][3].bits > 0

\* the values of the two shards: A is this packer's input, B the second shard
ShardA == Values
ShardB == Slice(shard[1], shard[2])

\* C13 as stated: decoding the join of pack(A) and pack(B) returns A followed
\* by B, for any A and B.
ShardConcatAny ==
    given = "joined" =>
        (result.kind = "ok" /\ result.vals = ShardA \o ShardB)

\* C13, amended: decoding the join of pack(A) and pack(B) returns A followed
\* by B when every chunk of A is full (its length is a multiple of 257) or B
\* is empty.
ShardConcatFull ==
    (given = "joined" /\ (n % ValuesPerBlock = 0 \/ shard[2] = 0)) =>
        (result.kind = "ok" /\ result.vals = ShardA \o ShardB)

ShardConcatFullWitness ==
    /\ given = "joined"
    /\ n = ValuesPerBlock
    /\ shard = <<2, ValuesPerBlock + MaxShard>>
    /\ Len(result.vals) = (2 * ValuesPerBlock) + MaxShard
    /\ result.vals[n + 1] = StreamAt(2, 1)

\* the literal that call e of load parsed
Parsed(e) == IF e.trim THEN trim_matches_0(Literals[e.lit]) ELSE Literals[e.lit]

\* C14: a call of load whose literal (trimmed, if trim is set) does not parse
\* returns an error and leaves the packer as it was: cache, block lists,
\* total_count and trim flag; no value is ingested.
ParseFailure ==
    [][Len(lits') = Len(lits) + 1 =>
          LET e == lits'[Len(lits')]
          IN  from_str(Parsed(e)).kind = "err" =>
                 (e.res = "err" /\ UNCHANGED <<cache, packed, trim>>)]_vars

ParseFailureWitness ==
    /\ Len(lits) = 2
    /\ lits[1] = [lit |-> 2, trim |-> TRUE, res |-> "ok"]
    /\ lits[2] = [lit |-> 6, trim |-> TRUE, res |-> "err"]
    /\ cache.buffer = Some(<<U32(512), U32(887485), U32Zero, U32Zero>>)
    /\ cache.idx = 0
    /\ packed[2] = 0

\* the 96-bit mantissa, the scale and the sign of a Decimal
Mantissa(d) == (d.lo \o d.mid) \o d.hi
Scale(d) == d.flags[3]
Negative(d) == d.flags[4] = 128

RECURSIVE Scaled(_, _)
\* m * 10^k, on the digits of m
Scaled(m, k) ==
    IF k = 0 THEN m
    ELSE Scaled(SubSeq(MulAdd(m, 10, 0, 1), 1, Len(m)), k - 1)

\* a == b of two Decimals: the same number, whatever the scales
NumEq(a, b) ==
    LET wide(d) == Mantissa(d) \o MantissaZero
        s == IF Scale(a) > Scale(b) THEN Scale(a) ELSE Scale(b)
    IN  /\ Scaled(wide(a), s - Scale(a)) = Scaled(wide(b), s - Scale(b))
        /\ Negative(a) = Negative(b) \/ Mantissa(a) = MantissaZero

\* how many of the first j calls of load returned Ok
Ingested(j) == Cardinality({i \in 1..j : lits[i].res = "ok"})

\* C15: with trim set, a call of load with a literal that denotes a decimal
\* returns Ok and ingests a decimal numerically equal to the denoted one:
\* it is the previous value of the cache after the call, and the decode
\* after a finalize returns it at the position of the call.
LiteralLoadTrim ==
    \A j \in 1..Len(lits) :
        LET e == lits[j]
            d == from_str(Literals[e.lit])
        IN  (e.trim /\ d.kind = "ok") =>
               /\ e.res = "ok"
               /\ (j = Len(lits) /\ marks = <<>>) =>
                      /\ cache.buffer # None
                      /\ NumEq(deserialize(unzip_u8(cache.buffer[1])), d.dec)
               /\ (marks # <<>> /\ given = "self") =>
                      /\ result.kind = "ok"
                      /\ NumEq(result.vals[Ingested(j)], d.dec)

\* the cache after the cache step of the claim for the lanes of one value
CacheStep(c, lanes) ==
    IF c.buffer = None
    THEN [buffer |-> Some(lanes), head |-> lanes,
          compressed |-> c.compressed, idx |-> c.idx]
    ELSE [buffer |-> Some(lanes), head |-> c.head,
          compressed |-> [i \in Lanes |->
              [k \in 1..BLOCK_LEN |->
                  IF k = c.idx + 1 THEN XorU32(lanes[i], c.buffer[1][i])
                  ELSE c.compressed[i][k]]],
          idx |-> c.idx + 1]

\* C16: an ingest into a cache without a previous value records the four
\* lanes as head and leaves deltas and fill alone; an ingest with a previous
\* value writes deltas[i][fill] = lane_i XOR previous_i and adds exactly 1 to
\* fill; either way previous becomes the ingested lanes.  The flush happens
\* exactly when fill has reached 256, on the 257th value of the chunk: then a
\* block per lane is pushed and the cache is reset; otherwise the stream is
\* unchanged.
ChunkCacheStep ==
    [][n' = n + 1 =>
          LET c == CacheStep(cache, [i \in Lanes |-> LaneOf(n + 1, i)])
          IN  /\ cache.buffer = None => (cache.idx = 0 /\ c.idx = 0)
              /\ IF c.idx = BLOCK_LEN
                 THEN /\ CachedValues = BLOCK_LEN
                      /\ \A i \in Lanes : Len(packed'[1][i]) = Len(packed[1][i]) + 1
                      /\ cache' = Cache_default
                 ELSE /\ c.idx < BLOCK_LEN
                      /\ packed' = packed
                      /\ cache' = c]_vars

ChunkCacheStepWitness ==
    /\ src = 2
    /\ n = BLOCK_LEN
    /\ marks = <<>>
    /\ cache.idx = BLOCK_LEN - 1
    /\ cache.buffer = Some([i \in Lanes |-> LaneOf(BLOCK_LEN, i)])
    /\ cache.head = [i \in Lanes |-> LaneOf(1, i)]
    /\ BlocksPerLane(0)

\* C17: every delta slot at index >= fill is 0 in all four lanes, in every
\* reachable state, also after earlier chunks were flushed; the width of a
\* partial last block is the bit length of the largest real delta of its
\* chunk, and in the decode of such a stream the positions past the real
\* values repeat the last real lane value and lie at or past total_count.
PaddingZero ==
    /\ \A i \in Lanes : \A k \in (cache.idx + 1)..BLOCK_LEN :
          cache.compressed[i][k] = U32Zero
    /\ (JustPacked /\ given = "self" /\ n % ValuesPerBlock # 0) =>
          /\ packed[2] = n
          /\ \A i \in Lanes :
                LET last == Len(packed[1][i])
                    u    == UnpackLane(packed[1][i], last)
                IN  /\ packed[1][i][last].bits = WidthOf(Chunks[last], i)
                    /\ Len(u) = ValuesPerBlock * Len(packed[1][i])
                    /\ Len(u) > packed[2]
                    /\ \A k \in (packed[2] + 1)..Len(u) : u[k] = LaneOf(n, i)

PaddingZeroWitness ==
    /\ JustPacked
    /\ given = "self"
    /\ src = 2
    /\ n = ValuesPerBlock + 2
    /\ BlocksPerLane(2)
    /\ packed[1][2][2].bits > 0

\* C18: a step never changes or removes a block of a lane list and never
\* decreases total_count: it leaves the stream unchanged, or appends exactly
\* one block to every lane and adds fill + 1 (the values of the flushed
\* chunk) to total_count; a decode changes neither the packer nor the stream.
AppendOnly ==
    [][/\ \A i \in Lanes :
             /\ Len(packed'[1][i]) >= Len(packed[1][i])
             /\ SubSeq(packed'[1][i], 1, Len(packed[1][i])) = packed[1][i]
       /\ packed'[2] >= packed[2]
       /\ \/ packed' = packed
          \/ /\ \A i \in Lanes : Len(packed'[1][i]) = Len(packed[1][i]) + 1
             /\ packed'[2] = packed[2] + CachedValues + (n' - n)
             /\ cache' = Cache_default
       /\ given' # given => UNCHANGED <<cache, packed>>]_vars

AppendOnlyWitness ==
    /\ Len(marks) = 2
    /\ marks[1] = ValuesPerBlock + 1
    /\ n = marks[2]
    /\ n > marks[1]
    /\ BlocksPerLane(3)
    /\ packed[2] = n
    /\ given = "self"

\* C19: in the stream of pack(values), and in the stream of a packer that was
\* only fed, total_count is at most 257 * the block count of every lane and
\* only the last block covers fewer than 257 values: unpack reads no position
\* that does not exist, and position i < total_count holds the i-th ingested
\* value.
DecodeBounds ==
    (marks = <<>> \/ JustPacked) =>
        /\ \A i \in Lanes :
              /\ packed[2] <= ValuesPerBlock * Len(packed[1][i])
              /\ Len(packed[1][i]) > 0 =>
                    packed[2] > ValuesPerBlock * (Len(packed[1][i]) - 1)
        /\ given = "self" =>
              /\ result.kind = "ok"
              /\ Len(result.vals) = packed[2]
              /\ \A k \in 1..packed[2] : result.vals[k] = StreamAt(src, k)

DecodeBoundsWitness ==
    /\ JustPacked
    /\ given = "self"
    /\ n = (2 * ValuesPerBlock) - 1
    /\ BlocksPerLane(2)
    /\ result.kind = "ok"
    /\ result.vals[n] = StreamAt(src, n)

\* C20: after every load_decimal and pack the fill index is in 0..255, and a
\* cache without a previous value has fill 0 and head [0, 0, 0, 0]: the write
\* compressed[i][idx] of load_decimal is inside the 256-slot buffer.
CacheInvariant ==
    /\ cache.idx \in 0..(BLOCK_LEN - 1)
    /\ cache.buffer = None =>
          (cache.idx = 0 /\ cache.head = <<U32Zero, U32Zero, U32Zero, U32Zero>>)
    /\ \A i \in Lanes : DOMAIN cache.compressed[i] = 1..BLOCK_LEN

CacheInvariantWitness ==
    /\ n = 2 * ValuesPerBlock - 1
    /\ marks = <<>>
    /\ cache.idx = BLOCK_LEN - 1
    /\ cache.buffer # None

====
